---- MODULE Spec2Model ----
(***************************************************************************)
(* Model of src/context/context_manager.py: the token budget adjustment    *)
(* of load_project_context, truncate_to_token_budget and load_snapshots;   *)
(* and of the validation of src/context/mcp_knowledge_graph.py.            *)
(* Texts are TLA+ strings (TLC evaluates Len, \o and SubSeq on strings).   *)
(***************************************************************************)
EXTENDS Integers, Sequences, FiniteSets, TLC

VARIABLES
    DEFAULT_TOKEN_BUDGETS, \* the module-level table, detail level -> dict
    store,                 \* the snapshot files on disk
    calls,                 \* number of load_project_context calls made so far
    detail_level,          \* arguments of the last load_project_context call
    focus_area,
    max_tokens,
    entry_budgets,         \* token_budgets as fetched at line 300 of that call
    boosted,               \* token_budgets after the focus adjustment (line 312)
    token_budgets,         \* token_budgets as used for loading (line 324 on)
    snapshots_content,     \* what load_snapshots returned to that call
    emitted,               \* the snapshots load_snapshots appended, in order
    text,                  \* arguments of a truncate_to_token_budget call
    budget,
    preserve_sections,
    result,                \* its return value (None before it returns)
    pieces,                \* the sections it appended, in order
    remaining_budget,      \* its local remaining_budget at the return
    load_snapshots_call,   \* a direct load_snapshots call: arguments, outcome
    graph_call             \* a knowledge graph call: operation, argument, dict

budget_vars == <<DEFAULT_TOKEN_BUDGETS, calls, detail_level, focus_area,
                 max_tokens, entry_budgets, boosted, token_budgets,
                 snapshots_content, emitted>>

truncate_vars == <<text, budget, preserve_sections, result, pieces,
                   remaining_budget>>

call_vars == <<load_snapshots_call, graph_call>>

vars == <<budget_vars, store, truncate_vars, call_vars>>

\* Python's None (a marker no argument string of the model equals).
None == "<None>"

\* The value of a call record before the call is made.
NoCall == [result |-> None]

\* Python 3 truthiness of an optional string: None and "" are false.
Truthy(x) == x # None /\ x # ""

(***************************************************************************)
(* IEEE-754 binary64 arithmetic on the values the budget scaling uses.     *)
(* A natural number is a sequence of limbs in base 2^LimbBits, least       *)
(* significant limb first, so that no intermediate value leaves 32 bits.   *)
(***************************************************************************)
MantissaBits == 53

LimbBits == 12

\* 2^n for n in 0..LimbBits
Pow2(n) == <<1, 2, 4, 8, 16, 32, 64, 128, 256, 512, 1024, 2048, 4096>>[n + 1]

Base == Pow2(LimbBits)

RECURSIVE LimbsToInt(_)
LimbsToInt(limbs) ==
    IF limbs = <<>> THEN 0 ELSE Head(limbs) + Base * LimbsToInt(Tail(limbs))

\* limbs + 1
RECURSIVE LimbsInc(_)
LimbsInc(limbs) ==
    IF limbs = <<>> THEN <<1>>
    ELSE IF Head(limbs) < Base - 1 THEN <<Head(limbs) + 1>> \o Tail(limbs)
    ELSE <<0>> \o LimbsInc(Tail(limbs))

\* limbs * a + carry, for a natural a below 2^18
RECURSIVE LimbsMulSmall(_, _, _)
LimbsMulSmall(limbs, a, carry) ==
    IF limbs = <<>>
    THEN IF carry = 0 THEN <<>>
         ELSE <<carry % Base>> \o LimbsMulSmall(<<>>, a, carry \div Base)
    ELSE LET t == Head(limbs) * a + carry
         IN  <<t % Base>> \o LimbsMulSmall(Tail(limbs), a, t \div Base)

\* Without the zero limbs at the most significant end.
RECURSIVE StripZeros(_)
StripZeros(limbs) ==
    IF limbs # <<>> /\ limbs[Len(limbs)] = 0
    THEN StripZeros(SubSeq(limbs, 1, Len(limbs) - 1))
    ELSE limbs

\* Number of significant bits of a natural below Base.
RECURSIVE IntBitLen(_)
IntBitLen(x) == IF x = 0 THEN 0 ELSE 1 + IntBitLen(x \div 2)

\* Number of significant bits of a stripped limb sequence.
BitLen(limbs) ==
    IF limbs = <<>> THEN 0
    ELSE LimbBits * (Len(limbs) - 1) + IntBitLen(limbs[Len(limbs)])

\* Bit i (bit 0 the least significant) of a natural.
Bit(limbs, i) ==
    LET w == i \div LimbBits
    IN  IF w + 1 > Len(limbs) THEN 0
        ELSE (limbs[w + 1] \div Pow2(i % LimbBits)) % 2

\* Whether the lowest d bits are all zero.
LowZero(limbs, d) ==
    LET w == d \div LimbBits
    IN  /\ \A i \in 1..w : i > Len(limbs) \/ limbs[i] = 0
        /\ (w + 1 > Len(limbs) \/ limbs[w + 1] % Pow2(d % LimbBits) = 0)

\* floor(limbs / 2^d)
ShiftRight(limbs, d) ==
    LET w  == d \div LimbBits
        lo == Pow2(d % LimbBits)
        hi == Pow2(LimbBits - (d % LimbBits))
        n  == Len(limbs)
        at(i) == IF i <= n THEN limbs[i] ELSE 0
    IN  IF w >= n THEN <<>>
        ELSE StripZeros([i \in 1..(n - w) |->
                 (at(i + w) \div lo) + (at(i + w + 1) % lo) * hi])

\* The smallest e >= 1 with m * 2^e >= s (for 0 < m < s).
RECURSIVE Normalise(_, _, _)
Normalise(r, s, e) == IF r >= s THEN e ELSE Normalise(2 * r, s, e + 1)

\* Long division by s: j more quotient limbs of r / s put in front of acc
\* (acc holds the limbs least significant first), with the last remainder.
RECURSIVE QuotientLimbs(_, _, _, _)
QuotientLimbs(r, s, j, acc) ==
    IF j = 0 THEN <<acc, r>>
    ELSE QuotientLimbs((r * Base) % s, s, j - 1, <<(r * Base) \div s>> \o acc)

\* scale_factor = max_tokens / total_budget for 0 < m < s < 2^18: the double
\* nearest to m / s (ties to even), as <<mantissa, k>> for mantissa * 2^-k.
FloatDiv(m, s) ==
    LET k    == (MantissaBits - 1) + Normalise(2 * m, s, 1)
        t    == k % LimbBits
        q    == QuotientLimbs((m * Pow2(t)) % s, s, k \div LimbBits,
                              <<(m * Pow2(t)) \div s>>)
        rem  == q[2]
        up   == 2 * rem > s \/ (2 * rem = s /\ q[1][1] % 2 = 1)
    IN  <<IF up THEN LimbsInc(q[1]) ELSE q[1], k>>

\* A variant of ScaleInt that leaves the allowance unscaled.
ScaleIntUnscaled(a, scale_factor) == a

\* int(a * scale_factor) for a natural a and a double scale_factor as FloatDiv
\* gives it: the double nearest to the product (ties to even), truncated
\* toward zero.
ScaleInt(a, scale_factor) ==
    LET prod == StripZeros(LimbsMulSmall(scale_factor[1], a, 0))
        k    == scale_factor[2]
        d    == BitLen(prod) - MantissaBits
    IN  IF d <= 0 THEN LimbsToInt(ShiftRight(prod, k))
        ELSE LET kept == ShiftRight(prod, d)
                 up   == Bit(prod, d - 1) = 1
                         /\ (~LowZero(prod, d - 1) \/ Bit(prod, d) = 1)
             IN  LimbsToInt(ShiftRight(IF up THEN LimbsInc(kept) ELSE kept,
                                       k - d))

(***************************************************************************)
(* Text helpers: Python's str operations on TLA+ strings.                  *)
(***************************************************************************)
Min(x, y) == IF x <= y THEN x ELSE y

Max(x, y) == IF x >= y THEN x ELSE y

\* s[:n], for any integer n (a negative n counts from the end)
PySlice(s, n) ==
    IF n >= 0 THEN SubSeq(s, 1, Min(n, Len(s)))
    ELSE SubSeq(s, 1, Max(Len(s) + n, 0))

\* text.split('\n'), scanning from position i with the current line starting
\* at position start
RECURSIVE SplitLines(_, _, _, _)
SplitLines(s, i, start, acc) ==
    IF i > Len(s) THEN Append(acc, SubSeq(s, start, Len(s)))
    ELSE IF SubSeq(s, i, i) = "\n"
         THEN SplitLines(s, i + 1, i + 1, Append(acc, SubSeq(s, start, i - 1)))
         ELSE SplitLines(s, i + 1, start, acc)

Whitespace == {" ", "\t", "\n", "\r", "\f"}

\* s.strip()
RECURSIVE Strip(_)
Strip(s) ==
    IF s # "" /\ SubSeq(s, 1, 1) \in Whitespace THEN Strip(SubSeq(s, 2, Len(s)))
    ELSE IF s # "" /\ SubSeq(s, Len(s), Len(s)) \in Whitespace
         THEN Strip(SubSeq(s, 1, Len(s) - 1))
         ELSE s

\* line.startswith('## ')
IsHeading(line) == Len(line) >= 3 /\ SubSeq(line, 1, 3) = "## "

\* x in list
InList(x, list) == \E i \in 1..Len(list) : list[i] = x

(***************************************************************************)
(* estimate_tokens and truncate_to_token_budget.                           *)
(***************************************************************************)
CharsPerToken == 4

estimate_tokens(s) == Len(s) \div CharsPerToken

ContentMarker == "\n\n[Content truncated due to token budget]"

SectionMarker == "\n\n[Section truncated due to token budget]\n\n"

\* The default preserve_sections=None, kept apart from the empty list.
NoneSections == <<None>>

\* not preserve_sections
NoPreserve(preserve) == preserve = NoneSections \/ preserve = <<>>

\* A variant of Fits that sends a text of exactly budget tokens to truncation.
FitsStrictly(s, b) == estimate_tokens(s) < b

\* Line 72: the text is returned unchanged.
Fits(s, b) == estimate_tokens(s) <= b

\* A variant of PriorityOf that ranks the preserved titles below the others.
PriorityOfSwapped(section_title, preserve) ==
    IF InList(section_title, preserve) THEN 1 ELSE 2

\* Line 92: the priority of a '## ' section.
PriorityOf(section_title, preserve) ==
    IF InList(section_title, preserve) THEN 2 ELSE 1

\* Lines 82-98: the sections in document order; index is the position in
\* that order (1 is the leading "Header" section).
RECURSIVE SplitSections(_, _, _, _, _)
SplitSections(lines, i, current_section, sections, preserve) ==
    IF i > Len(lines)
    THEN Append(sections, [current_section EXCEPT !.index = Len(sections) + 1])
    ELSE IF IsHeading(lines[i])
         THEN LET section_title == Strip(SubSeq(lines[i], 4, Len(lines[i])))
              IN  SplitSections(lines, i + 1,
                      [title |-> section_title,
                       content |-> lines[i] \o "\n",
                       priority |-> PriorityOf(section_title, preserve),
                       index |-> 0],
                      Append(sections,
                             [current_section EXCEPT !.index = Len(sections) + 1]),
                      preserve)
         ELSE SplitSections(lines, i + 1,
                      [current_section EXCEPT
                           !.content = current_section.content \o lines[i] \o "\n"],
                      sections, preserve)

Sections(s, preserve) ==
    SplitSections(SplitLines(s, 1, 1, <<>>), 1,
                  [title |-> "Header", content |-> "", priority |-> 0, index |-> 0],
                  <<>>, preserve)

\* [s for s in sections if s["priority"] == p], in list order
RECURSIVE WithPriority(_, _, _)
WithPriority(sections, p, i) ==
    IF i > Len(sections) THEN <<>>
    ELSE (IF sections[i].priority = p THEN <<sections[i]>> ELSE <<>>)
         \o WithPriority(sections, p, i + 1)

\* Line 101: sections.sort(key=priority, reverse=True); the sort is stable.
SortByPriority(sections) ==
    WithPriority(sections, 2, 1) \o WithPriority(sections, 1, 1)
    \o WithPriority(sections, 0, 1)

\* One of the three for loops without its break (lines 118, 132, 146).
RECURSIVE PassLoopNoBreak(_, _, _)
PassLoopNoBreak(secs, i, st) ==
    IF i > Len(secs) THEN st
    ELSE LET section == secs[i]
             section_tokens == estimate_tokens(section.content)
             fits == section_tokens <= st.remaining_budget
             cut == PySlice(section.content, st.remaining_budget * CharsPerToken)
                        \o SectionMarker
             appended == IF fits THEN section.content ELSE cut
         IN  PassLoopNoBreak(secs, i + 1,
                 [result |-> st.result \o appended,
                  remaining_budget |->
                      IF fits THEN st.remaining_budget - section_tokens ELSE 0,
                  pieces |-> Append(st.pieces,
                                [index |-> section.index,
                                 title |-> section.title,
                                 whole |-> fits,
                                 text |-> appended])])

\* One of the three for loops (lines 108-118, 122-132, 136-146) from its
\* i-th section on. st holds result, remaining_budget and the record of what
\* was appended.
RECURSIVE PassLoop(_, _, _)
PassLoop(secs, i, st) ==
    IF i > Len(secs) THEN st
    ELSE LET section == secs[i]
             section_tokens == estimate_tokens(section.content)
         IN  IF section_tokens <= st.remaining_budget
             THEN PassLoop(secs, i + 1,
                      [result |-> st.result \o section.content,
                       remaining_budget |-> st.remaining_budget - section_tokens,
                       pieces |-> Append(st.pieces,
                                     [index |-> section.index,
                                      title |-> section.title,
                                      whole |-> TRUE,
                                      text |-> section.content])])
             ELSE LET char_budget == st.remaining_budget * CharsPerToken
                      cut == PySlice(section.content, char_budget) \o SectionMarker
                  IN  [result |-> st.result \o cut,
                       remaining_budget |-> 0,
                       pieces |-> Append(st.pieces,
                                     [index |-> section.index,
                                      title |-> section.title,
                                      whole |-> FALSE,
                                      text |-> cut])]

\* Lines 81-148: the path taken with a non-empty preserve list.
TruncateSections(s, b, preserve) ==
    LET sections == SortByPriority(Sections(s, preserve))
        first  == PassLoop(WithPriority(sections, 2, 1), 1,
                      [result |-> "", remaining_budget |-> b, pieces |-> <<>>])
        second == IF first.remaining_budget > 0
                  THEN PassLoop(WithPriority(sections, 1, 1), 1, first)
                  ELSE first
        third  == IF second.remaining_budget > 0
                  THEN PassLoop(WithPriority(sections, 0, 1), 1, second)
                  ELSE second
    IN  third

\* truncate_to_token_budget with the record of the sections it appended
\* (none on the two paths that do not split the text) and the final value of
\* remaining_budget (None on those two paths, which return before line 103).
TruncateRun(s, b, preserve) ==
    IF Fits(s, b)
    THEN [result |-> s, pieces |-> <<>>, remaining_budget |-> None]
    ELSE IF NoPreserve(preserve)
    THEN [result |-> PySlice(s, b * CharsPerToken) \o ContentMarker,
          pieces |-> <<>>, remaining_budget |-> None]
    ELSE LET run == TruncateSections(s, b, preserve)
         IN  [result |-> run.result, pieces |-> run.pieces,
              remaining_budget |-> run.remaining_budget]

truncate_to_token_budget(s, b, preserve) == TruncateRun(s, b, preserve).result

(***************************************************************************)
(* The snapshot store and load_snapshots.                                  *)
(***************************************************************************)
SNAPSHOT_TYPE_PRIORITIES == <<"general", "architecture", "knowledge_graph", "workflow">>

IMPORTANT_SECTIONS ==
    [general |-> <<"Status Summary", "Active Components", "Current Challenges">>,
     architecture |-> <<"Architecture Overview", "Component Structure",
                        "Technical Decisions">>,
     knowledge_graph |-> <<"Graph Schema", "Entity Types", "Relationship Types">>,
     workflow |-> <<"User Workflows", "Data Processing Pipeline",
                    "Note Management Procedures">>]

SnapshotTypes == {SNAPSHOT_TYPE_PRIORITIES[i] : i \in 1..Len(SNAPSHOT_TYPE_PRIORITIES)}

HierarchyLevels == {"summary", "standard", "detailed"}

\* hierarchy_level_map.get(detail_level, "standard")
HierarchyLevel(level) ==
    IF level = "minimal" THEN "summary"
    ELSE IF level = "comprehensive" THEN "detailed"
    ELSE "standard"

LowerLetters == "abcdefghijklmnopqrstuvwxyz"

UpperLetters == "ABCDEFGHIJKLMNOPQRSTUVWXYZ"

\* c, or the letter of `into` at the position c has in `from`
MapLetter(c, from, into) ==
    IF \E i \in 1..Len(from) : SubSeq(from, i, i) = c
    THEN LET i == CHOOSE j \in 1..Len(from) : SubSeq(from, j, j) = c
         IN  SubSeq(into, i, i)
    ELSE c

RECURSIVE LowerAll(_)
LowerAll(s) ==
    IF s = "" THEN ""
    ELSE MapLetter(SubSeq(s, 1, 1), UpperLetters, LowerLetters)
         \o LowerAll(SubSeq(s, 2, Len(s)))

\* s.capitalize()
Capitalize(s) ==
    IF s = "" THEN ""
    ELSE MapLetter(SubSeq(s, 1, 1), LowerLetters, UpperLetters)
         \o LowerAll(SubSeq(s, 2, Len(s)))

\* The position of the first file with the largest st_mtime (max() keeps the
\* first of equal keys), in the order glob lists the files.
LatestIndex(files) ==
    CHOOSE i \in 1..Len(files) :
        /\ \A j \in 1..Len(files) : files[j].mtime <= files[i].mtime
        /\ \A j \in 1..(i - 1) : files[j].mtime < files[i].mtime

\* get_latest_snapshot(snapshot_type, hierarchy_level) on the store st, which
\* maps a type and a level to [exists: the directory exists, files: its *.md
\* files]. The path is None or names the file found.
get_latest_snapshot(st, snapshot_type, hierarchy_level) ==
    LET missing == [path |-> None,
                    content |-> "No snapshots found for type '" \o snapshot_type
                                \o "' at level '" \o hierarchy_level \o "'"]
    IN  IF snapshot_type \notin DOMAIN st THEN missing
        ELSE LET dir == st[snapshot_type][hierarchy_level]
             IN  IF ~dir.exists THEN missing
                 ELSE IF dir.files = <<>> THEN missing
                 ELSE LET i == LatestIndex(dir.files)
                      IN  [path |-> <<snapshot_type, hierarchy_level, i>>,
                           content |-> dir.files[i].content]

\* Lines 244-253 without the test of line 247: every type of the list is
\* taken as found.
RECURSIVE FoundSnapshotsUnchecked(_, _, _, _)
FoundSnapshotsUnchecked(st, snapshot_types, hierarchy_level, i) ==
    IF i > Len(snapshot_types) THEN <<>>
    ELSE LET got == get_latest_snapshot(st, snapshot_types[i], hierarchy_level)
         IN  <<[type |-> snapshot_types[i], path |-> got.path,
                content |-> got.content,
                tokens |-> estimate_tokens(got.content)]>>
             \o FoundSnapshotsUnchecked(st, snapshot_types, hierarchy_level, i + 1)

\* Lines 244-253: the snapshots found, in the order of snapshot_types.
RECURSIVE FoundSnapshots(_, _, _, _)
FoundSnapshots(st, snapshot_types, hierarchy_level, i) ==
    IF i > Len(snapshot_types) THEN <<>>
    ELSE LET got == get_latest_snapshot(st, snapshot_types[i], hierarchy_level)
         IN  (IF got.path # None
              THEN <<[type |-> snapshot_types[i], path |-> got.path,
                      content |-> got.content,
                      tokens |-> estimate_tokens(got.content)]>>
              ELSE <<>>)
             \o FoundSnapshots(st, snapshot_types, hierarchy_level, i + 1)

\* The sort key of line 256.
PriorityIndex(type) ==
    IF InList(type, SNAPSHOT_TYPE_PRIORITIES)
    THEN (CHOOSE i \in 1..Len(SNAPSHOT_TYPE_PRIORITIES) :
              SNAPSHOT_TYPE_PRIORITIES[i] = type) - 1
    ELSE 999

\* Stable insertion of x into a list sorted by PriorityIndex.
RECURSIVE InsertByPriority(_, _)
InsertByPriority(sorted, x) ==
    IF sorted = <<>> THEN <<x>>
    ELSE IF PriorityIndex(x.type) < PriorityIndex(Head(sorted).type)
         THEN <<x>> \o sorted
         ELSE <<Head(sorted)>> \o InsertByPriority(Tail(sorted), x)

RECURSIVE SortFrom(_, _, _)
SortFrom(snapshots, i, sorted) ==
    IF i > Len(snapshots) THEN sorted
    ELSE SortFrom(snapshots, i + 1, InsertByPriority(sorted, snapshots[i]))

\* A variant of SortSnapshots that keeps the order of snapshot_types.
SortSnapshotsKeepOrder(snapshots) == snapshots

\* Line 256: snapshots.sort(key=index in SNAPSHOT_TYPE_PRIORITIES), stable.
SortSnapshots(snapshots) == SortFrom(snapshots, 1, <<>>)

\* important_sections = IMPORTANT_SECTIONS.get(type, [])
ImportantSections(type) ==
    IF type \in DOMAIN IMPORTANT_SECTIONS THEN IMPORTANT_SECTIONS[type] ELSE <<>>

\* snapshot_header = f"## {snapshot['type'].capitalize()} Snapshot\n\n"
SnapshotHeader(type) == "## " \o Capitalize(type) \o " Snapshot\n\n"

\* Lines 262-283 without the two breaks of lines 263 and 274.
RECURSIVE SnapshotLoopNoBreak(_, _, _)
SnapshotLoopNoBreak(snapshots, i, st) ==
    IF i > Len(snapshots) THEN st
    ELSE LET snapshot == snapshots[i]
             header_tokens == estimate_tokens(SnapshotHeader(snapshot.type))
             after_header == st.remaining_budget - header_tokens
             truncated_content ==
                 truncate_to_token_budget(snapshot.content, after_header,
                                          ImportantSections(snapshot.type))
         IN  SnapshotLoopNoBreak(snapshots, i + 1,
                 [result |-> st.result \o SnapshotHeader(snapshot.type)
                             \o truncated_content \o "\n\n",
                  remaining_budget |->
                      after_header - estimate_tokens(truncated_content),
                  emitted |-> Append(st.emitted,
                      [type |-> snapshot.type,
                       header_tokens |-> header_tokens,
                       budget |-> after_header,
                       content |-> truncated_content])])

\* Lines 262-283: the formatting loop from its i-th snapshot on. st holds
\* result, remaining_budget and the record of what was appended.
RECURSIVE SnapshotLoop(_, _, _)
SnapshotLoop(snapshots, i, st) ==
    IF i > Len(snapshots) THEN st
    ELSE IF st.remaining_budget <= 0 THEN st
    ELSE LET snapshot == snapshots[i]
             snapshot_header == SnapshotHeader(snapshot.type)
             header_tokens == estimate_tokens(snapshot_header)
         IN  IF header_tokens > st.remaining_budget THEN st
             ELSE LET after_header == st.remaining_budget - header_tokens
                      truncated_content ==
                          truncate_to_token_budget(snapshot.content, after_header,
                                                   ImportantSections(snapshot.type))
                  IN  SnapshotLoop(snapshots, i + 1,
                          [result |-> st.result \o snapshot_header
                                      \o truncated_content \o "\n\n",
                           remaining_budget |->
                               after_header - estimate_tokens(truncated_content),
                           emitted |-> Append(st.emitted,
                               [type |-> snapshot.type,
                                header_tokens |-> header_tokens,
                                budget |-> after_header,
                                content |-> truncated_content])])

\* load_snapshots(detail_level, snapshot_types, token_budget) on the store st;
\* snapshot_types is a list or NoneSections for the default None.
LoadSnapshotsRun(st, level, snapshot_types, token_budget) ==
    LET types == IF snapshot_types = NoneSections
                 THEN SNAPSHOT_TYPE_PRIORITIES ELSE snapshot_types
        snapshots == SortSnapshots(
                         FoundSnapshots(st, types, HierarchyLevel(level), 1))
    IN  SnapshotLoop(snapshots, 1,
            [result |-> "# Project Snapshots\n\n",
             remaining_budget |-> token_budget,
             emitted |-> <<>>])

load_snapshots(st, level, snapshot_types, token_budget) ==
    LoadSnapshotsRun(st, level, snapshot_types, token_budget).result

\* [st for st in SNAPSHOT_TYPE_PRIORITIES if st != focus_area]
RECURSIVE TypesWithout(_, _)
TypesWithout(focus, i) ==
    IF i > Len(SNAPSHOT_TYPE_PRIORITIES) THEN <<>>
    ELSE (IF SNAPSHOT_TYPE_PRIORITIES[i] # focus
          THEN <<SNAPSHOT_TYPE_PRIORITIES[i]>> ELSE <<>>)
         \o TypesWithout(focus, i + 1)

\* Lines 341-344: the snapshot_types load_project_context passes on.
SnapshotTypesFor(focus) ==
    IF Truthy(focus) /\ InList(focus, SNAPSHOT_TYPE_PRIORITIES)
    THEN <<focus>> \o TypesWithout(focus, 1)
    ELSE NoneSections

(***************************************************************************)
(* Token budgets.                                                          *)
(***************************************************************************)
\* The dict keys in insertion order (the order sum() and the scaling loop
\* visit them).
BudgetKeys == <<"readme", "architecture", "glossary", "snapshots", "total">>

Components == {"readme", "architecture", "glossary", "snapshots"}

\* The table as the module defines it at import time.
BaseBudgets ==
    [minimal |->
        [readme |-> 500, architecture |-> 1000, glossary |-> 500,
         snapshots |-> 1000, total |-> 3000],
     standard |->
        [readme |-> 1000, architecture |-> 2000, glossary |-> 1000,
         snapshots |-> 4000, total |-> 8000],
     comprehensive |->
        [readme |-> 2000, architecture |-> 3000, glossary |-> 2000,
         snapshots |-> 8000, total |-> 15000]]

\* DEFAULT_TOKEN_BUDGETS.get(detail_level, DEFAULT_TOKEN_BUDGETS["standard"])
\* returns the dict object stored under this key, not a copy.
BudgetKey(level) == IF level \in DOMAIN BaseBudgets THEN level ELSE "standard"

\* Lines 302-312: the focus adjustment; int(x * 2.0) is exactly 2 * x.
FocusBoost(b, focus) ==
    IF ~Truthy(focus) THEN b
    ELSE IF focus = "general"
         THEN [b EXCEPT !["readme"] = 2 * b["readme"]]
    ELSE IF focus = "architecture"
         THEN [b EXCEPT !["architecture"] = 2 * b["architecture"]]
    ELSE IF focus \in {"knowledge_graph", "workflow", "agent"}
         THEN [b EXCEPT !["snapshots"] = 2 * b["snapshots"]]
    ELSE b

\* sum(token_budgets.values()): every value of the dict, 'total' included.
RECURSIVE SumValues(_, _)
SumValues(b, i) ==
    IF i > Len(BudgetKeys) THEN 0 ELSE b[BudgetKeys[i]] + SumValues(b, i + 1)

\* sum(token_budgets.values()) with the 'total' entry left out.
SumValuesComponents(b) ==
    b["readme"] + b["architecture"] + b["glossary"] + b["snapshots"]

TotalBudget(b) == SumValues(b, 1)

\* Lines 314-322: scale down when the sum exceeds max_tokens.
CapBudgets(b, m) ==
    LET total_budget == TotalBudget(b)
    IN  IF total_budget > m
        THEN LET scale_factor == FloatDiv(m, total_budget)
                 rd == ScaleInt(b["readme"], scale_factor)
                 ar == ScaleInt(b["architecture"], scale_factor)
                 gl == ScaleInt(b["glossary"], scale_factor)
                 sn == ScaleInt(b["snapshots"], scale_factor)
             IN  [readme |-> rd, architecture |-> ar, glossary |-> gl,
                  snapshots |-> sn, total |-> m]
        ELSE b

\* Argument values the model draws from.
DetailLevels == {"minimal", "standard", "comprehensive", "full"}

FocusAreas == {None, "general", "architecture", "knowledge_graph",
               "workflow", "agent", "testing"}

MaxTokensChoices == {40, 4000, 8000, 40000}

MaxCalls == 2

\* load_project_context(d, f, m). The README, architecture and glossary
\* files are read and truncated without any effect on the state; the part of
\* the returned context kept here is the one load_snapshots contributes.
LoadProjectContext(d, f, m) ==
    /\ calls < MaxCalls
    /\ LET key   == BudgetKey(d)
           fetch == DEFAULT_TOKEN_BUDGETS[key]
           boost == FocusBoost(fetch, f)
           final == CapBudgets(boost, m)
       IN  /\ entry_budgets' = fetch
           /\ boosted' = boost
           /\ token_budgets' = final
           /\ DEFAULT_TOKEN_BUDGETS' =
                  [DEFAULT_TOKEN_BUDGETS EXCEPT ![key] = token_budgets']
    /\ LET run == LoadSnapshotsRun(store, d, SnapshotTypesFor(f),
                                   token_budgets'["snapshots"])
       IN  /\ snapshots_content' = run.result
           /\ emitted' = run.emitted
    /\ calls' = calls + 1
    /\ detail_level' = d
    /\ focus_area' = f
    /\ max_tokens' = m
    /\ UNCHANGED <<store, truncate_vars, call_vars>>

\* A store without a snapshots directory.
EmptyStore ==
    [t \in SnapshotTypes |->
        [l \in HierarchyLevels |-> [exists |-> FALSE, files |-> <<>>]]]

InitBudgets ==
    /\ DEFAULT_TOKEN_BUDGETS = BaseBudgets
    /\ calls = 0
    /\ detail_level = None
    /\ focus_area = None
    /\ max_tokens = 0
    /\ entry_budgets = BaseBudgets["standard"]
    /\ boosted = BaseBudgets["standard"]
    /\ token_budgets = BaseBudgets["standard"]
    /\ snapshots_content = None
    /\ emitted = <<>>

InitNoTruncate ==
    /\ text = ""
    /\ budget = 0
    /\ preserve_sections = NoneSections
    /\ result = None
    /\ pieces = <<>>
    /\ remaining_budget = None

InitNoCall ==
    /\ load_snapshots_call = NoCall
    /\ graph_call = NoCall

Init ==
    /\ InitBudgets
    /\ store = EmptyStore
    /\ InitNoTruncate
    /\ InitNoCall

Next ==
    \E d \in DetailLevels, f \in FocusAreas, m \in MaxTokensChoices :
        LoadProjectContext(d, f, m)

\* Sequences of load_project_context calls on the table.
Spec == Init /\ [][Next]_vars

(***************************************************************************)
(* Context assembly over stores that hold snapshots.                       *)
(***************************************************************************)
SnapshotBody ==
    [general |-> "intro\n## Status Summary\nall fine\n## Notes\nmisc\n",
     architecture |-> "## Layers\nthree\n## Architecture Overview\nboxes\n",
     knowledge_graph |-> "## Graph Schema\nnodes and edges\n",
     workflow |-> "## Other\nzz\n## User Workflows\ncapture then file\n"]

LevelSuffix ==
    [summary |-> "", standard |-> "more\n", detailed |-> "more\nand more\n"]

\* The directory of a type that has snapshots: an older file (listed first
\* for "general", last for the others) and the latest one.
PresentDir(t, l) ==
    LET latest == [mtime |-> 2, content |-> SnapshotBody[t] \o LevelSuffix[l]]
        older  == [mtime |-> 1, content |-> "old\n"]
    IN  [exists |-> TRUE,
         files |-> IF t = "general" THEN <<older, latest>> ELSE <<latest, older>>]

\* The directory of a type without snapshots: missing, or (for
\* "architecture") there but empty.
AbsentDir(t) == [exists |-> t = "architecture", files |-> <<>>]

StoreWith(present) ==
    [t \in SnapshotTypes |->
        [l \in HierarchyLevels |->
            IF t \in present THEN PresentDir(t, l) ELSE AbsentDir(t)]]

StoreConfigs == {StoreWith(present) : present \in SUBSET SnapshotTypes}

AssembleLevels == {"standard"}

AssembleMaxTokens == {100, 8000}

InitAssemble ==
    /\ InitBudgets
    /\ store \in StoreConfigs
    /\ InitNoTruncate
    /\ InitNoCall

NextAssemble ==
    \E d \in AssembleLevels, f \in FocusAreas, m \in AssembleMaxTokens :
        LoadProjectContext(d, f, m)

SpecAssemble == InitAssemble /\ [][NextAssemble]_vars

(***************************************************************************)
(* load_snapshots called directly on stores that hold snapshots.           *)
(***************************************************************************)
MaxTokenBudget == 40

\* Budgets up to the bound, and one that every store fits.
TokenBudgets == (0..MaxTokenBudget) \union {2000}

\* None, the lists load_project_context passes, and a list that names a type
\* no directory exists for.
TypeLists ==
    {SnapshotTypesFor(f) : f \in FocusAreas}
        \union {<<"workflow", "custom", "general">>}

\* load_snapshots(d, types, b)
LoadSnapshots(d, types, b) ==
    /\ load_snapshots_call = NoCall
    /\ LET run == LoadSnapshotsRun(store, d, types, b)
       IN  load_snapshots_call' =
               [detail_level |-> d, snapshot_types |-> types,
                token_budget |-> b, result |-> run.result,
                emitted |-> run.emitted,
                remaining_budget |-> run.remaining_budget]
    /\ UNCHANGED <<budget_vars, store, truncate_vars, graph_call>>

InitSnapshots ==
    /\ InitBudgets
    /\ store \in StoreConfigs
    /\ InitNoTruncate
    /\ InitNoCall

NextSnapshots ==
    \E d \in DetailLevels, types \in TypeLists, b \in TokenBudgets :
        LoadSnapshots(d, types, b)

SpecSnapshots == InitSnapshots /\ [][NextSnapshots]_vars

(***************************************************************************)
(* truncate_to_token_budget on bounded inputs.                             *)
(***************************************************************************)
MaxLines == 3

MaxBudget == 5

LineChoices == {"## X", "## Y", "## Zed ", "##X", "abcdefghij", "ab", ""}

RECURSIVE JoinLines(_, _)
JoinLines(lines, i) ==
    IF i = Len(lines) THEN lines[i]
    ELSE lines[i] \o "\n" \o JoinLines(lines, i + 1)

Texts ==
    {JoinLines(ls, 1) : ls \in UNION {[1..n -> LineChoices] : n \in 1..MaxLines}}

Budgets == (-1)..MaxBudget

PreserveChoices == {NoneSections, <<>>, <<"X">>, <<"Y", "X">>, <<"Zed">>}

\* truncate_to_token_budget(text, budget, preserve_sections)
Truncate ==
    /\ result = None
    /\ LET run == TruncateRun(text, budget, preserve_sections)
       IN  /\ result' = run.result
           /\ pieces' = run.pieces
           /\ remaining_budget' = run.remaining_budget
    /\ UNCHANGED <<text, budget, preserve_sections, budget_vars, store,
                   call_vars>>

InitTruncate ==
    /\ InitBudgets
    /\ store = EmptyStore
    /\ text \in Texts
    /\ budget \in Budgets
    /\ preserve_sections \in PreserveChoices
    /\ result = None
    /\ pieces = <<>>
    /\ remaining_budget = None
    /\ InitNoCall

NextTruncate == Truncate

SpecTruncate == InitTruncate /\ [][NextTruncate]_vars

(***************************************************************************)
(* src/context/mcp_knowledge_graph.py: the batch and import operations.    *)
(* A dict is a function on its keys, a list a sequence.                    *)
(***************************************************************************)
\* dict.get(key, default)
DictGet(d, key, default) == IF key \in DOMAIN d THEN d[key] ELSE default

\* str(n) of a natural number
RECURSIVE Decimal(_)
Decimal(n) ==
    IF n < 10 THEN SubSeq("0123456789", n + 1, n + 1)
    ELSE Decimal(n \div 10) \o SubSeq("0123456789", (n % 10) + 1, (n % 10) + 1)

EntityFields == <<"name", "entityType", "observations">>

RelationshipFields == <<"from", "to", "relationType">>

\* Lines 98 and 183: the entry has every required field.
HasFields(entry, fields) == \A i \in 1..Len(fields) : fields[i] \in DOMAIN entry

\* Lines 97-106 and 182-191: the entries that pass the test, reduced to the
\* required fields.
RECURSIVE Formatted(_, _, _)
Formatted(entries, fields, i) ==
    IF i > Len(entries) THEN <<>>
    ELSE (IF HasFields(entries[i], fields)
          THEN <<[k \in {fields[j] : j \in 1..Len(fields)} |-> entries[i][k]]>>
          ELSE <<>>)
         \o Formatted(entries, fields, i + 1)

create_entities(entities) ==
    LET formatted_entities == Formatted(entities, EntityFields, 1)
    IN  [success |-> TRUE,
         entities_created |-> Len(formatted_entities),
         message |-> "Created " \o Decimal(Len(formatted_entities)) \o " entities"]

create_relationships(relationships) ==
    LET formatted_relationships == Formatted(relationships, RelationshipFields, 1)
    IN  [success |-> TRUE,
         relationships_created |-> Len(formatted_relationships),
         message |-> "Created " \o Decimal(Len(formatted_relationships))
                     \o " relationships"]

\* Line 347 read as accepting a snapshot that has either key.
SnapshotKeysPresentEither(snapshot) ==
    "entities" \in DOMAIN snapshot \/ "relationships" \in DOMAIN snapshot

\* Line 347: the snapshot passes when it has both keys.
SnapshotKeysPresent(snapshot) ==
    "entities" \in DOMAIN snapshot /\ "relationships" \in DOMAIN snapshot

import_graph_snapshot(snapshot) ==
    IF ~SnapshotKeysPresent(snapshot)
    THEN [success |-> FALSE, error |-> "Invalid snapshot format"]
    ELSE [success |-> TRUE,
          entities_imported |-> Len(DictGet(snapshot, "entities", <<>>)),
          relationships_imported |-> Len(DictGet(snapshot, "relationships", <<>>)),
          message |-> "Graph snapshot imported successfully"]

MaxEntries == 2

FullEntity ==
    [name |-> "Parser", entityType |-> "Component", observations |-> <<"reads notes">>]

FullRelationship ==
    [from |-> "Parser", to |-> "Notes", relationType |-> "depends_on"]

\* The dict d with only the keys of K.
Restrict(d, K) == [k \in K |-> d[k]]

\* Every dict that has some of the fields of d.
Partial(d) == {Restrict(d, K) : K \in SUBSET DOMAIN d}

ListsOf(entries) == UNION {[1..n -> entries] : n \in 0..MaxEntries}

SnapshotPayloads ==
    UNION {Partial([entities |-> es, relationships |-> rs,
                    timestamp |-> "2025-01-01T00:00:00"]) :
               es \in ListsOf({FullEntity}), rs \in ListsOf({FullRelationship})}

GraphCall(operation, argument, response) ==
    /\ graph_call = NoCall
    /\ graph_call' = [operation |-> operation, argument |-> argument,
                      response |-> response]
    /\ UNCHANGED <<budget_vars, store, truncate_vars, load_snapshots_call>>

CreateEntities ==
    \E entities \in ListsOf(Partial(FullEntity)) :
        GraphCall("create_entities", entities, create_entities(entities))

CreateRelationships ==
    \E relationships \in ListsOf(Partial(FullRelationship)) :
        GraphCall("create_relationships", relationships,
                  create_relationships(relationships))

ImportGraphSnapshot ==
    \E snapshot \in SnapshotPayloads :
        GraphCall("import_graph_snapshot", snapshot,
                  import_graph_snapshot(snapshot))

InitGraph ==
    /\ InitBudgets
    /\ store = EmptyStore
    /\ InitNoTruncate
    /\ InitNoCall

NextGraph == CreateEntities \/ CreateRelationships \/ ImportGraphSnapshot

SpecGraph == InitGraph /\ [][NextGraph]_vars

(***************************************************************************)
(* Properties of the budget adjustment (checked under Spec).               *)
(***************************************************************************)
\* The table of the detail level the last call asked for, as the module
\* defines it.
BaseOfCall == BaseBudgets[BudgetKey(detail_level)]

StartedFromBase == entry_budgets = BaseOfCall

\* The sum of the four component allowances after the focus boost.
current_sum == SumValuesComponents(boosted)

\* C1: after the budget adjustment the four component allowances sum to at
\* most max_tokens, on every call of any sequence of calls.
BudgetCap ==
    calls > 0 => SumValuesComponents(token_budgets) <= max_tokens

\* C1 witness: a later call, on a table earlier calls changed, whose boosted
\* allowances had to be scaled down to a sum that is not a multiple of the
\* scale.
BudgetCapWitness ==
    /\ calls = MaxCalls
    /\ ~StartedFromBase
    /\ Truthy(focus_area)
    /\ current_sum > max_tokens
    /\ SumValuesComponents(token_budgets) > 0
    /\ SumValuesComponents(token_budgets) < max_tokens

\* C2: a call leaves DEFAULT_TOKEN_BUDGETS as the module defines it, so the
\* budgets of every call are those the same call computes as the first one.
CallIndependence ==
    /\ DEFAULT_TOKEN_BUDGETS = BaseBudgets
    /\ calls > 0 =>
           token_budgets = CapBudgets(FocusBoost(BaseOfCall, focus_area), max_tokens)

\* C3: on a call starting from the base table, when the component sum after
\* the focus boost is at most max_tokens, every component allowance used for
\* loading is its value after the boost.
NoCappingWhenFits ==
    (calls > 0 /\ StartedFromBase /\ current_sum <= max_tokens)
        => \A c \in Components : token_budgets[c] = boosted[c]

\* C4: on a call starting from the base table, when the component sum after
\* the focus boost exceeds max_tokens, every component allowance becomes
\* floor(allowance * max_tokens / current_sum) and 'total' becomes max_tokens.
ProportionalScaling ==
    (calls > 0 /\ StartedFromBase /\ current_sum > max_tokens)
        => /\ \A c \in Components :
                  token_budgets[c] = (boosted[c] * max_tokens) \div current_sum
           /\ token_budgets["total"] = max_tokens

\* The component the claim maps a focus area to ("none" when it maps to none).
FocusComponent(focus) ==
    IF focus = "general" THEN "readme"
    ELSE IF focus = "architecture" THEN "architecture"
    ELSE IF focus \in {"knowledge_graph", "workflow", "agent"} THEN "snapshots"
    ELSE "none"

\* C5: on a call where capping does not trigger, the budgets are the base
\* table of the detail level with the focus area's component doubled and
\* every other entry, 'total' included, at its base value.
FocusBoostMapping ==
    (calls > 0 /\ TotalBudget(boosted) <= max_tokens)
        => \A k \in DOMAIN token_budgets :
               token_budgets[k] = IF k = FocusComponent(focus_area)
                                  THEN 2 * BaseOfCall[k] ELSE BaseOfCall[k]

(***************************************************************************)
(* Properties of truncate_to_token_budget (checked under SpecTruncate).    *)
(***************************************************************************)
Returned == result # None

\* C6: a text whose estimate floor(len / 4) is at most the budget is returned
\* unchanged, whatever the preserve list, and truncating the result again at
\* the same budget returns it unchanged too.
IdentityWhenFits ==
    (Returned /\ Len(text) \div 4 <= budget)
        => /\ result = text
           /\ truncate_to_token_budget(result, budget, preserve_sections) = result

\* C6 witness: a text with a preserved heading whose estimate equals the
\* budget has been returned.
IdentityWhenFitsWitness ==
    /\ Returned
    /\ budget > 0
    /\ Len(text) \div 4 = budget
    /\ preserve_sections = <<"X">>
    /\ \E i \in 1..Len(Sections(text, preserve_sections)) :
           Sections(text, preserve_sections)[i].title = "X"

\* C7: the result is never longer than the text.
MonotonicShrink == Returned => Len(result) <= Len(text)

\* C8: for a non-negative budget the estimate of the result, markers
\* included, is at most the budget.
ResultFitsBudget ==
    (Returned /\ budget >= 0) => Len(result) \div 4 <= budget

\* The bucket of an appended section, from its place in the document and its
\* title: 0 the leading "Header" section, 2 a '## ' section whose title is in
\* the preserve list, 1 any other '## ' section.
Bucket(p) ==
    IF p.index = 1 THEN 0
    ELSE IF InList(p.title, preserve_sections) THEN 2 ELSE 1

RECURSIVE ConcatPieces(_, _)
ConcatPieces(ps, i) ==
    IF i > Len(ps) THEN "" ELSE ps[i].text \o ConcatPieces(ps, i + 1)

SectionPath ==
    Returned /\ Len(text) \div 4 > budget /\ preserve_sections # NoneSections
    /\ preserve_sections # <<>>

\* C9: with a non-empty preserve list on a text that does not fit, the output
\* is the appended sections in bucket order Preserved, Normal, Preamble, in
\* document order within a bucket, each in full except possibly the last; and
\* when anything of a Normal or Preamble section is in the output, every
\* preserved section is there in full before it.
PriorityPreservation ==
    SectionPath =>
        LET secs == Sections(text, preserve_sections)
            n    == Len(pieces)
        IN  /\ result = ConcatPieces(pieces, 1)
            /\ \A i \in 1..n : \A j \in (i + 1)..n :
                   \/ Bucket(pieces[i]) > Bucket(pieces[j])
                   \/ /\ Bucket(pieces[i]) = Bucket(pieces[j])
                      /\ pieces[i].index < pieces[j].index
            /\ \A i \in 1..n :
                   /\ pieces[i].whole \/ i = n
                   /\ pieces[i].whole => pieces[i].text = secs[pieces[i].index].content
            /\ (\E i \in 1..n : Bucket(pieces[i]) < 2)
                   => \A k \in 2..Len(secs) :
                          InList(secs[k].title, preserve_sections)
                              => \E i \in 1..n : /\ pieces[i].index = k
                                                 /\ pieces[i].whole

\* C9 witness: a preserved section that comes later in the document was
\* appended in full ahead of a Normal section, which was then cut.
PriorityPreservationWitness ==
    /\ SectionPath
    /\ Len(pieces) >= 2
    /\ Bucket(pieces[1]) = 2 /\ pieces[1].whole
    /\ Bucket(pieces[2]) = 1 /\ ~pieces[2].whole
    /\ pieces[1].index > pieces[2].index

\* The remaining budget when the i-th appended section was reached: the
\* budget less the estimates of the sections appended before it.
RECURSIVE BudgetBefore(_)
BudgetBefore(i) ==
    IF i <= 1 THEN budget
    ELSE BudgetBefore(i - 1) - estimate_tokens(pieces[i - 1].text)

EndsWith(s, suffix) ==
    /\ Len(s) >= Len(suffix)
    /\ SubSeq(s, Len(s) - Len(suffix) + 1, Len(s)) = suffix

IsAppended(k) == \E i \in 1..Len(pieces) : pieces[i].index = k

\* C14: in the preserve-list path a section is appended whole only when its
\* estimate is within the remaining budget; the first section a pass finds
\* above it is appended as its first remaining_budget * 4 characters and the
\* section marker, the remaining budget becomes 0 and the marker ends the
\* output; after a whole append that leaves exactly 0, no section of a later
\* bucket is appended; and a section is left out only after such a cut or
\* when its bucket's pass was not entered for lack of budget.
StopAfterPartialSection ==
    SectionPath =>
        LET secs == Sections(text, preserve_sections)
            n    == Len(pieces)
        IN  /\ \A i \in 1..n :
                   LET content == secs[pieces[i].index].content
                       before  == BudgetBefore(i)
                   IN  IF pieces[i].whole
                       THEN /\ estimate_tokens(content) <= before
                            /\ (before - estimate_tokens(content) = 0)
                                   => \A j \in (i + 1)..n :
                                          Bucket(pieces[j]) = Bucket(pieces[i])
                       ELSE /\ estimate_tokens(content) > before
                            /\ i = n
                            /\ remaining_budget = 0
                            /\ EndsWith(result, SectionMarker)
                            /\ before >= 0 =>
                                   pieces[i].text =
                                       SubSeq(content, 1,
                                              Min(before * 4, Len(content)))
                                       \o SectionMarker
            /\ \A k \in 1..Len(secs) :
                   ~IsAppended(k) =>
                       \/ n >= 1 /\ ~pieces[n].whole
                       \/ /\ remaining_budget <= 0
                          /\ \A i \in 1..n : Bucket(pieces[i]) > Bucket(secs[k])
                          /\ Bucket(secs[k]) < 2

\* C14 witness: a section was appended whole, the next one did not fit the
\* budget left and was cut to a non-empty prefix, and a section after it in
\* the order of the passes was left out.
StopAfterPartialSectionWitness ==
    /\ SectionPath
    /\ Len(pieces) >= 2
    /\ pieces[1].whole
    /\ ~pieces[Len(pieces)].whole
    /\ BudgetBefore(Len(pieces)) >= 1
    /\ \E k \in 1..Len(Sections(text, preserve_sections)) :
           /\ ~IsAppended(k)
           /\ Sections(text, preserve_sections)[k].content # ""

\* The number of times the character c occurs in s.
Occurrences(c, s) == Cardinality({i \in 1..Len(s) : SubSeq(s, i, i) = c})

\* The result has fewer occurrences of some character than the text.
LeavesOut ==
    \E i \in 1..Len(text) :
        Occurrences(SubSeq(text, i, i), result)
            < Occurrences(SubSeq(text, i, i), text)

HasSub(s, sub) ==
    \E k \in 1..(Len(s) - Len(sub) + 1) : SubSeq(s, k, k + Len(sub) - 1) = sub

\* C16: when the text is above a non-negative budget and the result leaves
\* out a character of it, the result holds one of the two marker lines.
OmissionAlwaysMarked ==
    (Returned /\ budget >= 0 /\ estimate_tokens(text) > budget /\ LeavesOut)
        => \/ HasSub(result, "[Content truncated due to token budget]")
           \/ HasSub(result, "[Section truncated due to token budget]")

(***************************************************************************)
(* Properties of the snapshot part (checked under SpecAssemble).           *)
(***************************************************************************)
RECURSIVE EmittedTypes(_)
EmittedTypes(i) ==
    IF i > Len(emitted) THEN <<>> ELSE <<emitted[i].type>> \o EmittedTypes(i + 1)

\* The snapshot types that have a snapshot at the level of the last call, in
\* the order of the list given.
RECURSIVE Having(_, _)
Having(types, i) ==
    IF i > Len(types) THEN <<>>
    ELSE (IF get_latest_snapshot(store, types[i],
                                 HierarchyLevel(detail_level)).path # None
          THEN <<types[i]>> ELSE <<>>) \o Having(types, i + 1)

\* C10: when the focus area is a snapshot type that has a snapshot, the
\* snapshots are emitted with that type first and the other types after it in
\* the order general, architecture, knowledge_graph, workflow.
FocusSnapshotFirst ==
    (/\ calls > 0
     /\ InList(focus_area, SNAPSHOT_TYPE_PRIORITIES)
     /\ Having(<<focus_area>>, 1) # <<>>
     /\ emitted # <<>>)
        => LET order == Having(<<focus_area>> \o TypesWithout(focus_area, 1), 1)
           IN  EmittedTypes(1) = SubSeq(order, 1, Len(emitted))

(***************************************************************************)
(* Properties of load_snapshots (checked under SpecSnapshots).             *)
(***************************************************************************)
Loaded == load_snapshots_call # NoCall

\* The list line 241 settles on, and the level of line 231-238.
CallTypes ==
    IF load_snapshots_call.snapshot_types = NoneSections
    THEN SNAPSHOT_TYPE_PRIORITIES ELSE load_snapshots_call.snapshot_types

CallLevel == HierarchyLevel(load_snapshots_call.detail_level)

\* The store has no directory for type t at the level of the call, or the
\* directory holds no file.
NoSnapshot(t) ==
    \/ t \notin DOMAIN store
    \/ ~store[t][CallLevel].exists
    \/ store[t][CallLevel].files = <<>>

IsEmitted(t) ==
    \E i \in 1..Len(load_snapshots_call.emitted) :
        load_snapshots_call.emitted[i].type = t

\* What the snapshots appended from the i-th on were charged.
RECURSIVE Charged(_, _)
Charged(em, i) ==
    IF i > Len(em) THEN 0
    ELSE em[i].header_tokens + estimate_tokens(em[i].content) + Charged(em, i + 1)

\* C11: a type without a directory or without a file in it is reported as
\* not found, gets neither a header nor content in the output and is charged
\* nothing; and a type that has a snapshot is left out only when the budget
\* ran out, never because another type had none.
MissingSnapshotsOmitted ==
    Loaded =>
        /\ \A k \in 1..Len(CallTypes) :
               NoSnapshot(CallTypes[k]) =>
                   /\ get_latest_snapshot(store, CallTypes[k], CallLevel).path = None
                   /\ ~IsEmitted(CallTypes[k])
                   /\ ~HasSub(load_snapshots_call.result,
                              SnapshotHeader(CallTypes[k]))
        /\ load_snapshots_call.remaining_budget =
               load_snapshots_call.token_budget
                   - Charged(load_snapshots_call.emitted, 1)
        /\ \A k \in 1..Len(CallTypes) :
               (~NoSnapshot(CallTypes[k]) /\ ~IsEmitted(CallTypes[k])) =>
                   \/ load_snapshots_call.remaining_budget <= 0
                   \/ \E j \in 1..Len(CallTypes) :
                          /\ ~NoSnapshot(CallTypes[j])
                          /\ ~IsEmitted(CallTypes[j])
                          /\ estimate_tokens(SnapshotHeader(CallTypes[j]))
                                 > load_snapshots_call.remaining_budget

\* C11 witness: a call whose list starts with a type without a directory
\* and a type with an empty one, and which emitted both types after them.
MissingSnapshotsOmittedWitness ==
    /\ Loaded
    /\ load_snapshots_call.snapshot_types = NoneSections
    /\ ~store["general"][CallLevel].exists
    /\ store["architecture"][CallLevel].exists
    /\ NoSnapshot("architecture")
    /\ IsEmitted("knowledge_graph")
    /\ IsEmitted("workflow")

\* The content of the most recently modified file of type t at the level of
\* the call.
LatestContent(t) ==
    LET files == store[t][CallLevel].files
        i == CHOOSE k \in 1..Len(files) :
                 \A j \in 1..Len(files) : files[j].mtime <= files[k].mtime
    IN  files[i].content

\* The remaining sub-budget when the i-th emitted snapshot was reached.
BudgetAt(i) ==
    load_snapshots_call.token_budget
        - (Charged(load_snapshots_call.emitted, 1)
           - Charged(load_snapshots_call.emitted, i))

RECURSIVE Rendered(_, _)
Rendered(em, i) ==
    IF i > Len(em) THEN ""
    ELSE SnapshotHeader(em[i].type) \o em[i].content \o "\n\n"
         \o Rendered(em, i + 1)

\* A type of the list that has a snapshot and was not emitted.
LeftOut(t) == InList(t, CallTypes) /\ ~NoSnapshot(t) /\ ~IsEmitted(t)

\* C15: the snapshots are emitted in priority order against a remaining
\* sub-budget that starts at token_budget; each one emitted was reached with
\* a positive remainder that covers its header, is charged the header and
\* then the estimate of its content truncated, with its type's important
\* sections, against what the header left; and the snapshots left out are
\* the ones from the first that found the remainder at or below 0 or below
\* its header on.
SnapshotLoopStopRule ==
    Loaded =>
        LET em == load_snapshots_call.emitted
            n  == Len(em)
        IN  /\ load_snapshots_call.result
                   = "# Project Snapshots\n\n" \o Rendered(em, 1)
            /\ \A i \in 1..n :
                   /\ ~NoSnapshot(em[i].type)
                   /\ \A j \in (i + 1)..n :
                          PriorityIndex(em[i].type) < PriorityIndex(em[j].type)
                   /\ em[i].header_tokens
                          = estimate_tokens(SnapshotHeader(em[i].type))
                   /\ BudgetAt(i) > 0
                   /\ em[i].header_tokens <= BudgetAt(i)
                   /\ em[i].budget = BudgetAt(i) - em[i].header_tokens
                   /\ em[i].content =
                          truncate_to_token_budget(LatestContent(em[i].type),
                              em[i].budget, IMPORTANT_SECTIONS[em[i].type])
            /\ load_snapshots_call.remaining_budget = BudgetAt(n + 1)
            /\ \A t \in SnapshotTypes :
                   LeftOut(t) =>
                       /\ \A i \in 1..n :
                              PriorityIndex(em[i].type) < PriorityIndex(t)
                       /\ \E u \in SnapshotTypes :
                              /\ LeftOut(u)
                              /\ PriorityIndex(u) <= PriorityIndex(t)
                              /\ \/ BudgetAt(n + 1) <= 0
                                 \/ estimate_tokens(SnapshotHeader(u))
                                        > BudgetAt(n + 1)

\* C15 witness: after a snapshot was emitted the remainder was positive but
\* below the header of the next one, which was left out.
SnapshotLoopStopRuleWitness ==
    /\ Loaded
    /\ load_snapshots_call.emitted # <<>>
    /\ load_snapshots_call.remaining_budget > 0
    /\ \E t \in SnapshotTypes : LeftOut(t)

\* C17: the remaining sub-budget of load_snapshots is never negative: not
\* after the charge of any emitted snapshot, and not at the return.
SubBudgetNeverOverdrawn ==
    Loaded =>
        /\ \A i \in 1..(Len(load_snapshots_call.emitted) + 1) : BudgetAt(i) >= 0
        /\ load_snapshots_call.remaining_budget >= 0
        /\ Charged(load_snapshots_call.emitted, 1)
               <= load_snapshots_call.token_budget

(***************************************************************************)
(* Properties of the knowledge graph operations (checked under SpecGraph). *)
(***************************************************************************)
Called(operation) ==
    graph_call # NoCall /\ graph_call.operation = operation

\* C12: import_graph_snapshot on a payload without the 'entities' key or
\* without the 'relationships' key returns exactly the failure envelope with
\* the error "Invalid snapshot format" (so no count of anything imported);
\* on a payload with both keys it returns success with the lengths of the
\* two lists.
ImportValidation ==
    Called("import_graph_snapshot") =>
        LET snapshot == graph_call.argument
            response == graph_call.response
        IN  IF "entities" \notin DOMAIN snapshot
               \/ "relationships" \notin DOMAIN snapshot
            THEN response = [success |-> FALSE, error |-> "Invalid snapshot format"]
            ELSE /\ response.success = TRUE
                 /\ response.entities_imported = Len(snapshot.entities)
                 /\ response.relationships_imported = Len(snapshot.relationships)

\* C12 witness: a payload that has entities to import but no
\* 'relationships' key was rejected.
ImportValidationWitness ==
    /\ Called("import_graph_snapshot")
    /\ "entities" \in DOMAIN graph_call.argument
    /\ graph_call.argument.entities # <<>>
    /\ "relationships" \notin DOMAIN graph_call.argument
    /\ graph_call.response.success = FALSE

\* Some entry of the batch lacks one of the required fields.
BatchHasInvalidEntry(fields) ==
    \E i \in 1..Len(graph_call.argument) :
        ~HasFields(graph_call.argument[i], fields)

\* C13: create_entities given an entry without 'name', 'entityType' or
\* 'observations', and create_relationships given an entry without 'from',
\* 'to' or 'relationType', return an envelope with success = false.
ValidationFailuresReported ==
    /\ (Called("create_entities") /\ BatchHasInvalidEntry(EntityFields))
           => graph_call.response.success = FALSE
    /\ (Called("create_relationships") /\ BatchHasInvalidEntry(RelationshipFields))
           => graph_call.response.success = FALSE

====
